---- MODULE Spec2Model ----
(***************************************************************************)
(* Task Manager API: the in-memory TaskStorage (models/task_model.py), the *)
(* validators (utils/validators.py) and the Flask handlers                 *)
(* (routes/task_routes.py) that compose them.                              *)
(*                                                                         *)
(* A JSON value is a record [t, v]: t is the JSON type and v the text of   *)
(* the value as a sequence of characters, so that strptime can be modelled *)
(* character by character.  An ASCII character is the one-character        *)
(* string; a character outside ASCII is the string "U+" and its code point *)
(* in hexadecimal.  Python's None is JSON null.  A decoded JSON object (a  *)
(* dict) is a function from its keys to values.                            *)
(*                                                                         *)
(* A Task is an object: heap[ref] holds its fields and whoever holds ref   *)
(* sees every change made through any other holder.  The dict              *)
(* TaskStorage.tasks is a sequence of entries [key, ref] in insertion      *)
(* order, which is the order a Python dict iterates in.                    *)
(*                                                                         *)
(* A handler runs on a thread.  Its steps are cut where the interpreter    *)
(* can let another thread run, at the calls the handler and TaskStorage    *)
(* make; the lines between two calls are one step.                         *)
(***************************************************************************)
EXTENDS Integers, Sequences, FiniteSets, TLC

VARIABLES
    tasks,      \* TaskStorage.tasks: entries [key, ref], in dict insertion order
    heap,       \* the Task objects: heap[ref] is the fields of the object ref
    next_id,    \* TaskStorage.next_id
    threads,    \* the frame of each server thread: where its handler is
    assigned,   \* history: the ids answered by create_task, oldest first
    deleted     \* history: the ids delete_task has removed

vars == <<tasks, heap, next_id, threads, assigned, deleted>>

(***************************************************************************)
(* Bounds of the model.                                                    *)
(***************************************************************************)
MaxCreates == 2
NThreads == 2

Ids == 1..(MaxCreates + 1)
Threads == 1..NThreads
Refs == 1..(MaxCreates + 1)

\* the thread that serves the requests of a client that sends one at a time
Worker == 1

(***************************************************************************)
(* JSON values.                                                            *)
(***************************************************************************)
Str(s) == [t |-> "str", v |-> s]
Null == [t |-> "null", v |-> <<>>]
Num(s) == [t |-> "num", v |-> s]
List(s) == [t |-> "list", v |-> s]

IsNone(x) == x.t = "null"
IsStr(x) == x.t = "str"

S_Pending == <<"P", "e", "n", "d", "i", "n", "g">>
S_InProgress == <<"I", "n", " ", "P", "r", "o", "g", "r", "e", "s", "s">>
S_Completed == <<"C", "o", "m", "p", "l", "e", "t", "e", "d">>
S_Done == <<"D", "o", "n", "e">>
S_pending == <<"p", "e", "n", "d", "i", "n", "g">>

D_iso == <<"2", "0", "2", "6", "-", "1", "2", "-", "3", "1">>
D_short == <<"2", "0", "2", "6", "-", "1", "-", "5">>
D_month13 == <<"2", "0", "2", "6", "-", "1", "3", "-", "0", "1">>
D_dmy == <<"3", "1", "-", "1", "2", "-", "2", "0", "2", "6">>
D_feb30 == <<"2", "0", "2", "6", "-", "0", "2", "-", "3", "0">>
D_blankday == <<"2", "0", "2", "6", "-", "1", "2", "-", " ", "5">>
\* 2026-12-31 with the year in ARABIC-INDIC digits
D_arabic == <<"U+0662", "U+0660", "U+0662", "U+0666", "-", "1", "2", "-", "3", "1">>
\* 2026-12-16 with the last digit a FULLWIDTH DIGIT SIX
D_fullwidth == <<"2", "0", "2", "6", "-", "1", "2", "-", "1", "U+FF16">>
\* 2026-12-31 with the month in ARABIC-INDIC digits
D_arabic_month == <<"2", "0", "2", "6", "-", "U+0661", "U+0662", "-", "3", "1">>

(***************************************************************************)
(* models/task_model.py                                                    *)
(***************************************************************************)
\* mutant of Task: the status passed is dropped for the default
Task_default_status(task_id, title, description, due_date, status) ==
    [id |-> task_id, title |-> title, description |-> description,
     due_date |-> due_date,
     status |-> IF IsNone(status) THEN status ELSE [t |-> "str", v |-> S_Pending]]

Task(task_id, title, description, due_date, status) ==
    [id |-> task_id, title |-> title, description |-> description,
     due_date |-> due_date, status |-> status]

to_dict(task) == task

\* Optional[Task]: no object
None == 0

\* a place of the heap that holds no object
NoTask == Task(0, Null, Null, Null, Null)

\* the place a Task constructed with the id nid is put at: the first free one
\* from nid on, so that a task sits at its id unless another has the same id
New(h, nid) ==
    CHOOSE o \in DOMAIN h :
        /\ o >= nid
        /\ h[o] = NoTask
        /\ \A p \in DOMAIN h : (p >= nid /\ h[p] = NoTask) => o <= p

\* self.tasks as a dict: its keys, membership, lookup
Keys(ts) == {ts[i].key : i \in DOMAIN ts}
IndexOf(ts, key) == CHOOSE i \in DOMAIN ts : ts[i].key = key

\* self.tasks.get(task_id): the object stored under the key, or None
get_task(ts, task_id) ==
    IF task_id \in Keys(ts) THEN ts[IndexOf(ts, task_id)].ref ELSE None

\* mutant of get_all_tasks: the newest task first
get_all_tasks_newest_first(ts) == [i \in DOMAIN ts |-> ts[Len(ts) + 1 - i].ref]

\* list(self.tasks.values()): the objects, in insertion order
get_all_tasks(ts) == [i \in DOMAIN ts |-> ts[i].ref]

\* self.tasks[key] = task: an existing key keeps its place, a new key is last
DictSet(ts, key, ref) ==
    IF key \in Keys(ts)
    THEN [ts EXCEPT ![IndexOf(ts, key)] = [key |-> key, ref |-> ref]]
    ELSE Append(ts, [key |-> key, ref |-> ref])

\* del self.tasks[key]
DictDel(ts, key) ==
    LET i == IndexOf(ts, key)
    IN  [j \in 1..(Len(ts) - 1) |-> IF j < i THEN ts[j] ELSE ts[j + 1]]

\* mutant of Task.update: every parameter is assigned, None included
Task_update_unconditional(task, title, description, due_date, status) ==
    [task EXCEPT !.title = title, !.description = description,
                 !.due_date = due_date, !.status = status]

\* mutant of Task.update: `if title:` for `if title is not None:`
Task_update_truthy(task, title, description, due_date, status) ==
    LET Truthy(x) == ~IsNone(x) /\ x.v # <<>>
    IN  [task EXCEPT
            !.title = IF Truthy(title) THEN title ELSE @,
            !.description = IF Truthy(description) THEN description ELSE @,
            !.due_date = IF Truthy(due_date) THEN due_date ELSE @,
            !.status = IF Truthy(status) THEN status ELSE @]

\* Task.update: a parameter that is None leaves its field alone
Task_update(task, title, description, due_date, status) ==
    [task EXCEPT
        !.title = IF ~IsNone(title) THEN title ELSE @,
        !.description = IF ~IsNone(description) THEN description ELSE @,
        !.due_date = IF ~IsNone(due_date) THEN due_date ELSE @,
        !.status = IF ~IsNone(status) THEN status ELSE @]

\* mutant of create_task: the counter is recomputed from the number of tasks
TaskStorage_create_task_recount(ts, nid, ref) ==
    [tasks |-> DictSet(ts, nid, ref), next_id |-> Len(DictSet(ts, nid, ref)) + 1]

\* TaskStorage.create_task, lines 88 and 89: the new dict and the new counter
TaskStorage_create_task(ts, nid, ref) ==
    [tasks |-> DictSet(ts, nid, ref), next_id |-> nid + 1]

\* mutant of delete_task: reports the removal without the del
TaskStorage_delete_task_keeps(ts, task_id) ==
    IF task_id \in Keys(ts)
    THEN [tasks |-> ts, result |-> TRUE]
    ELSE [tasks |-> ts, result |-> FALSE]

\* TaskStorage.delete_task: the new dict and the bool returned
TaskStorage_delete_task(ts, task_id) ==
    IF task_id \in Keys(ts)
    THEN [tasks |-> DictDel(ts, task_id), result |-> TRUE]
    ELSE [tasks |-> ts, result |-> FALSE]

(***************************************************************************)
(* utils/validators.py                                                     *)
(* A validator returns the tuple (is_valid, error); `fields` carries the   *)
(* names joined into the MissingFields message.  A validator that raises   *)
(* instead of returning is the result Raises(exception).                   *)
(***************************************************************************)
Valid == [is_valid |-> TRUE, error |-> "None", fields |-> <<>>]
Invalid(error) == [is_valid |-> FALSE, error |-> error, fields |-> <<>>]
Missing(names) == [is_valid |-> FALSE, error |-> "Missing required fields", fields |-> names]
Raises(exception) == [is_valid |-> FALSE, error |-> exception, fields |-> <<>>]
Raised(r) == r.error = "TypeError"

E_Date == "Invalid date format. Use YYYY-MM-DD"
E_Status == "Invalid status. Must be one of: Pending, In Progress, Completed"
E_Empty == "No fields provided for update"

\* the characters [0-9] of a regex
AsciiDigit == {"0", "1", "2", "3", "4", "5", "6", "7", "8", "9"}
NonZero == AsciiDigit \ {"0"}

\* the decimal digits outside ASCII (Unicode category Nd), a row per script,
\* zero first: a str pattern's \d matches them and int() converts them
UnicodeDigits ==
    <<
       <<"U+0660", "U+0661", "U+0662", "U+0663", "U+0664", "U+0665", "U+0666", "U+0667", "U+0668", "U+0669">>,
       <<"U+06F0", "U+06F1", "U+06F2", "U+06F3", "U+06F4", "U+06F5", "U+06F6", "U+06F7", "U+06F8", "U+06F9">>,
       <<"U+07C0", "U+07C1", "U+07C2", "U+07C3", "U+07C4", "U+07C5", "U+07C6", "U+07C7", "U+07C8", "U+07C9">>,
       <<"U+0966", "U+0967", "U+0968", "U+0969", "U+096A", "U+096B", "U+096C", "U+096D", "U+096E", "U+096F">>,
       <<"U+09E6", "U+09E7", "U+09E8", "U+09E9", "U+09EA", "U+09EB", "U+09EC", "U+09ED", "U+09EE", "U+09EF">>,
       <<"U+0A66", "U+0A67", "U+0A68", "U+0A69", "U+0A6A", "U+0A6B", "U+0A6C", "U+0A6D", "U+0A6E", "U+0A6F">>,
       <<"U+0AE6", "U+0AE7", "U+0AE8", "U+0AE9", "U+0AEA", "U+0AEB", "U+0AEC", "U+0AED", "U+0AEE", "U+0AEF">>,
       <<"U+0B66", "U+0B67", "U+0B68", "U+0B69", "U+0B6A", "U+0B6B", "U+0B6C", "U+0B6D", "U+0B6E", "U+0B6F">>,
       <<"U+0BE6", "U+0BE7", "U+0BE8", "U+0BE9", "U+0BEA", "U+0BEB", "U+0BEC", "U+0BED", "U+0BEE", "U+0BEF">>,
       <<"U+0C66", "U+0C67", "U+0C68", "U+0C69", "U+0C6A", "U+0C6B", "U+0C6C", "U+0C6D", "U+0C6E", "U+0C6F">>,
       <<"U+0CE6", "U+0CE7", "U+0CE8", "U+0CE9", "U+0CEA", "U+0CEB", "U+0CEC", "U+0CED", "U+0CEE", "U+0CEF">>,
       <<"U+0D66", "U+0D67", "U+0D68", "U+0D69", "U+0D6A", "U+0D6B", "U+0D6C", "U+0D6D", "U+0D6E", "U+0D6F">>,
       <<"U+0DE6", "U+0DE7", "U+0DE8", "U+0DE9", "U+0DEA", "U+0DEB", "U+0DEC", "U+0DED", "U+0DEE", "U+0DEF">>,
       <<"U+0E50", "U+0E51", "U+0E52", "U+0E53", "U+0E54", "U+0E55", "U+0E56", "U+0E57", "U+0E58", "U+0E59">>,
       <<"U+0ED0", "U+0ED1", "U+0ED2", "U+0ED3", "U+0ED4", "U+0ED5", "U+0ED6", "U+0ED7", "U+0ED8", "U+0ED9">>,
       <<"U+0F20", "U+0F21", "U+0F22", "U+0F23", "U+0F24", "U+0F25", "U+0F26", "U+0F27", "U+0F28", "U+0F29">>,
       <<"U+1040", "U+1041", "U+1042", "U+1043", "U+1044", "U+1045", "U+1046", "U+1047", "U+1048", "U+1049">>,
       <<"U+1090", "U+1091", "U+1092", "U+1093", "U+1094", "U+1095", "U+1096", "U+1097", "U+1098", "U+1099">>,
       <<"U+17E0", "U+17E1", "U+17E2", "U+17E3", "U+17E4", "U+17E5", "U+17E6", "U+17E7", "U+17E8", "U+17E9">>,
       <<"U+1810", "U+1811", "U+1812", "U+1813", "U+1814", "U+1815", "U+1816", "U+1817", "U+1818", "U+1819">>,
       <<"U+1946", "U+1947", "U+1948", "U+1949", "U+194A", "U+194B", "U+194C", "U+194D", "U+194E", "U+194F">>,
       <<"U+19D0", "U+19D1", "U+19D2", "U+19D3", "U+19D4", "U+19D5", "U+19D6", "U+19D7", "U+19D8", "U+19D9">>,
       <<"U+1A80", "U+1A81", "U+1A82", "U+1A83", "U+1A84", "U+1A85", "U+1A86", "U+1A87", "U+1A88", "U+1A89">>,
       <<"U+1A90", "U+1A91", "U+1A92", "U+1A93", "U+1A94", "U+1A95", "U+1A96", "U+1A97", "U+1A98", "U+1A99">>,
       <<"U+1B50", "U+1B51", "U+1B52", "U+1B53", "U+1B54", "U+1B55", "U+1B56", "U+1B57", "U+1B58", "U+1B59">>,
       <<"U+1BB0", "U+1BB1", "U+1BB2", "U+1BB3", "U+1BB4", "U+1BB5", "U+1BB6", "U+1BB7", "U+1BB8", "U+1BB9">>,
       <<"U+1C40", "U+1C41", "U+1C42", "U+1C43", "U+1C44", "U+1C45", "U+1C46", "U+1C47", "U+1C48", "U+1C49">>,
       <<"U+1C50", "U+1C51", "U+1C52", "U+1C53", "U+1C54", "U+1C55", "U+1C56", "U+1C57", "U+1C58", "U+1C59">>,
       <<"U+A620", "U+A621", "U+A622", "U+A623", "U+A624", "U+A625", "U+A626", "U+A627", "U+A628", "U+A629">>,
       <<"U+A8D0", "U+A8D1", "U+A8D2", "U+A8D3", "U+A8D4", "U+A8D5", "U+A8D6", "U+A8D7", "U+A8D8", "U+A8D9">>,
       <<"U+A900", "U+A901", "U+A902", "U+A903", "U+A904", "U+A905", "U+A906", "U+A907", "U+A908", "U+A909">>,
       <<"U+A9D0", "U+A9D1", "U+A9D2", "U+A9D3", "U+A9D4", "U+A9D5", "U+A9D6", "U+A9D7", "U+A9D8", "U+A9D9">>,
       <<"U+A9F0", "U+A9F1", "U+A9F2", "U+A9F3", "U+A9F4", "U+A9F5", "U+A9F6", "U+A9F7", "U+A9F8", "U+A9F9">>,
       <<"U+AA50", "U+AA51", "U+AA52", "U+AA53", "U+AA54", "U+AA55", "U+AA56", "U+AA57", "U+AA58", "U+AA59">>,
       <<"U+ABF0", "U+ABF1", "U+ABF2", "U+ABF3", "U+ABF4", "U+ABF5", "U+ABF6", "U+ABF7", "U+ABF8", "U+ABF9">>,
       <<"U+FF10", "U+FF11", "U+FF12", "U+FF13", "U+FF14", "U+FF15", "U+FF16", "U+FF17", "U+FF18", "U+FF19">>,
       <<"U+104A0", "U+104A1", "U+104A2", "U+104A3", "U+104A4", "U+104A5", "U+104A6", "U+104A7", "U+104A8", "U+104A9">>,
       <<"U+10D30", "U+10D31", "U+10D32", "U+10D33", "U+10D34", "U+10D35", "U+10D36", "U+10D37", "U+10D38", "U+10D39">>,
       <<"U+11066", "U+11067", "U+11068", "U+11069", "U+1106A", "U+1106B", "U+1106C", "U+1106D", "U+1106E", "U+1106F">>,
       <<"U+110F0", "U+110F1", "U+110F2", "U+110F3", "U+110F4", "U+110F5", "U+110F6", "U+110F7", "U+110F8", "U+110F9">>,
       <<"U+11136", "U+11137", "U+11138", "U+11139", "U+1113A", "U+1113B", "U+1113C", "U+1113D", "U+1113E", "U+1113F">>,
       <<"U+111D0", "U+111D1", "U+111D2", "U+111D3", "U+111D4", "U+111D5", "U+111D6", "U+111D7", "U+111D8", "U+111D9">>,
       <<"U+112F0", "U+112F1", "U+112F2", "U+112F3", "U+112F4", "U+112F5", "U+112F6", "U+112F7", "U+112F8", "U+112F9">>,
       <<"U+11450", "U+11451", "U+11452", "U+11453", "U+11454", "U+11455", "U+11456", "U+11457", "U+11458", "U+11459">>,
       <<"U+114D0", "U+114D1", "U+114D2", "U+114D3", "U+114D4", "U+114D5", "U+114D6", "U+114D7", "U+114D8", "U+114D9">>,
       <<"U+11650", "U+11651", "U+11652", "U+11653", "U+11654", "U+11655", "U+11656", "U+11657", "U+11658", "U+11659">>,
       <<"U+116C0", "U+116C1", "U+116C2", "U+116C3", "U+116C4", "U+116C5", "U+116C6", "U+116C7", "U+116C8", "U+116C9">>,
       <<"U+11730", "U+11731", "U+11732", "U+11733", "U+11734", "U+11735", "U+11736", "U+11737", "U+11738", "U+11739">>,
       <<"U+118E0", "U+118E1", "U+118E2", "U+118E3", "U+118E4", "U+118E5", "U+118E6", "U+118E7", "U+118E8", "U+118E9">>,
       <<"U+11950", "U+11951", "U+11952", "U+11953", "U+11954", "U+11955", "U+11956", "U+11957", "U+11958", "U+11959">>,
       <<"U+11C50", "U+11C51", "U+11C52", "U+11C53", "U+11C54", "U+11C55", "U+11C56", "U+11C57", "U+11C58", "U+11C59">>,
       <<"U+11D50", "U+11D51", "U+11D52", "U+11D53", "U+11D54", "U+11D55", "U+11D56", "U+11D57", "U+11D58", "U+11D59">>,
       <<"U+11DA0", "U+11DA1", "U+11DA2", "U+11DA3", "U+11DA4", "U+11DA5", "U+11DA6", "U+11DA7", "U+11DA8", "U+11DA9">>,
       <<"U+16A60", "U+16A61", "U+16A62", "U+16A63", "U+16A64", "U+16A65", "U+16A66", "U+16A67", "U+16A68", "U+16A69">>,
       <<"U+16AC0", "U+16AC1", "U+16AC2", "U+16AC3", "U+16AC4", "U+16AC5", "U+16AC6", "U+16AC7", "U+16AC8", "U+16AC9">>,
       <<"U+16B50", "U+16B51", "U+16B52", "U+16B53", "U+16B54", "U+16B55", "U+16B56", "U+16B57", "U+16B58", "U+16B59">>,
       <<"U+1D7CE", "U+1D7CF", "U+1D7D0", "U+1D7D1", "U+1D7D2", "U+1D7D3", "U+1D7D4", "U+1D7D5", "U+1D7D6", "U+1D7D7">>,
       <<"U+1D7D8", "U+1D7D9", "U+1D7DA", "U+1D7DB", "U+1D7DC", "U+1D7DD", "U+1D7DE", "U+1D7DF", "U+1D7E0", "U+1D7E1">>,
       <<"U+1D7E2", "U+1D7E3", "U+1D7E4", "U+1D7E5", "U+1D7E6", "U+1D7E7", "U+1D7E8", "U+1D7E9", "U+1D7EA", "U+1D7EB">>,
       <<"U+1D7EC", "U+1D7ED", "U+1D7EE", "U+1D7EF", "U+1D7F0", "U+1D7F1", "U+1D7F2", "U+1D7F3", "U+1D7F4", "U+1D7F5">>,
       <<"U+1D7F6", "U+1D7F7", "U+1D7F8", "U+1D7F9", "U+1D7FA", "U+1D7FB", "U+1D7FC", "U+1D7FD", "U+1D7FE", "U+1D7FF">>,
       <<"U+1E140", "U+1E141", "U+1E142", "U+1E143", "U+1E144", "U+1E145", "U+1E146", "U+1E147", "U+1E148", "U+1E149">>,
       <<"U+1E2F0", "U+1E2F1", "U+1E2F2", "U+1E2F3", "U+1E2F4", "U+1E2F5", "U+1E2F6", "U+1E2F7", "U+1E2F8", "U+1E2F9">>,
       <<"U+1E950", "U+1E951", "U+1E952", "U+1E953", "U+1E954", "U+1E955", "U+1E956", "U+1E957", "U+1E958", "U+1E959">>,
       <<"U+1FBF0", "U+1FBF1", "U+1FBF2", "U+1FBF3", "U+1FBF4", "U+1FBF5", "U+1FBF6", "U+1FBF7", "U+1FBF8", "U+1FBF9">>
    >>

\* the characters \d of a str regex matches
Digit == AsciiDigit \cup {UnicodeDigits[b][i] : b \in DOMAIN UnicodeDigits, i \in 1..10}

\* int() of one digit
DigitVal(c) ==
    CASE c = "0" -> 0 [] c = "1" -> 1 [] c = "2" -> 2 [] c = "3" -> 3
      [] c = "4" -> 4 [] c = "5" -> 5 [] c = "6" -> 6 [] c = "7" -> 7
      [] c = "8" -> 8 [] c = "9" -> 9
      [] OTHER ->
           IF \E b \in DOMAIN UnicodeDigits, i \in 1..10 : UnicodeDigits[b][i] = c
           THEN LET b == CHOOSE b \in DOMAIN UnicodeDigits :
                             \E i \in 1..10 : UnicodeDigits[b][i] = c
                IN  (CHOOSE i \in 1..10 : UnicodeDigits[b][i] = c) - 1
           ELSE 0

\* the character at position i, "" past the end
At(s, i) == IF i \in DOMAIN s THEN s[i] ELSE ""

\* int() of s[from..from+n-1]; int() skips the blank of a " 5" day
IntOf(s, from, n) ==
    IF n = 1 THEN DigitVal(At(s, from))
    ELSE IF n = 2 THEN 10 * DigitVal(At(s, from)) + DigitVal(At(s, from + 1))
    ELSE 1000 * DigitVal(At(s, from)) + 100 * DigitVal(At(s, from + 1))
         + 10 * DigitVal(At(s, from + 2)) + DigitVal(At(s, from + 3))

\* %Y is (?P<Y>\d\d\d\d)
YearMatches(s, p) == \A i \in p..(p + 3) : At(s, i) \in Digit

\* %m is (?P<m>1[0-2]|0[1-9]|[1-9]): the lengths of the alternatives that match
\* at p, in the order the regex tries them
MonthAlts(s, p) ==
    (IF At(s, p) = "1" /\ At(s, p + 1) \in {"0", "1", "2"} THEN <<2>> ELSE <<>>)
    \o (IF At(s, p) = "0" /\ At(s, p + 1) \in NonZero THEN <<2>> ELSE <<>>)
    \o (IF At(s, p) \in NonZero THEN <<1>> ELSE <<>>)

\* %d is (?P<d>3[0-1]|[1-2]\d|0[1-9]|[1-9]| [1-9])
DayAlts(s, p) ==
    (IF At(s, p) = "3" /\ At(s, p + 1) \in {"0", "1"} THEN <<2>> ELSE <<>>)
    \o (IF At(s, p) \in {"1", "2"} /\ At(s, p + 1) \in Digit THEN <<2>> ELSE <<>>)
    \o (IF At(s, p) = "0" /\ At(s, p + 1) \in NonZero THEN <<2>> ELSE <<>>)
    \o (IF At(s, p) \in NonZero THEN <<1>> ELSE <<>>)
    \o (IF At(s, p) = " " /\ At(s, p + 1) \in NonZero THEN <<2>> ELSE <<>>)

\* the month alternatives after which "-" and a day follow (the regex backtracks
\* over the month until the rest of the pattern matches)
MonthFits(s) ==
    SelectSeq(MonthAlts(s, 6),
              LAMBDA n : At(s, 6 + n) = "-" /\ DayAlts(s, 7 + n) # <<>>)

IsLeap(y) == (y % 4 = 0) /\ ((y % 100 # 0) \/ (y % 400 = 0))
DaysInMonth(y, m) ==
    IF m = 2 THEN (IF IsLeap(y) THEN 29 ELSE 28)
    ELSE IF m \in {4, 6, 9, 11} THEN 30 ELSE 31

\* datetime.strptime(s, "%Y-%m-%d") on a str: TRUE when it returns, FALSE when
\* it raises ValueError (no match, unconverted data remains, or no such day)
strptime(s) ==
    /\ YearMatches(s, 1)
    /\ At(s, 5) = "-"
    /\ MonthFits(s) # <<>>
    /\ LET ml == MonthFits(s)[1]
           dl == DayAlts(s, 7 + ml)[1]
           year == IntOf(s, 1, 4)
           month == IntOf(s, 6, ml)
           day == IF At(s, 7 + ml) = " " THEN IntOf(s, 8 + ml, 1)
                  ELSE IntOf(s, 7 + ml, dl)
       IN  /\ 6 + ml + dl = Len(s)
           /\ year >= 1
           /\ day <= DaysInMonth(year, month)

\* validate_date: strptime raises TypeError, which is not caught, on a non-str
validate_date(date_string) ==
    IF ~IsStr(date_string) THEN Raises("TypeError")
    ELSE IF strptime(date_string.v) THEN Valid
    ELSE Invalid(E_Date)

valid_statuses == <<Str(S_Pending), Str(S_InProgress), Str(S_Completed)>>

\* mutant of validate_status: any str is accepted
validate_status_any_str(status) ==
    IF ~IsStr(status) THEN Invalid(E_Status) ELSE Valid

validate_status(status) ==
    IF ~(\E i \in DOMAIN valid_statuses : valid_statuses[i] = status)
    THEN Invalid(E_Status)
    ELSE Valid

validate_task_data(data, required_fields) ==
    LET missing_fields == SelectSeq(required_fields, LAMBDA field : field \notin DOMAIN data)
    IN  IF missing_fields # <<>> THEN Missing(missing_fields) ELSE Valid

validate_create_task(data) ==
    LET required_fields == <<"title", "description", "due_date">>
        r1 == validate_task_data(data, required_fields)
    IN  IF ~r1.is_valid THEN r1
        ELSE LET r2 == validate_date(data["due_date"])
             IN  IF ~r2.is_valid THEN r2
                 ELSE IF "status" \in DOMAIN data /\ ~validate_status(data["status"]).is_valid
                      THEN validate_status(data["status"])
                      ELSE Valid

validate_update_task(data) ==
    IF DOMAIN data = {} THEN Invalid(E_Empty)
    ELSE LET r1 == IF "due_date" \in DOMAIN data
                   THEN validate_date(data["due_date"]) ELSE Valid
         IN  IF ~r1.is_valid THEN r1
             ELSE IF "status" \in DOMAIN data /\ ~validate_status(data["status"]).is_valid
                  THEN validate_status(data["status"])
                  ELSE Valid

(***************************************************************************)
(* The requests the model sends: decoded JSON bodies over the recognised   *)
(* keys, each key absent or holding one of a few values.                   *)
(***************************************************************************)
FieldNames == {"title", "description", "due_date", "status"}

FieldVals(k) ==
    CASE k = "title" -> {Str(<<"A">>), Str(<<>>), Null}
      [] k = "description" -> {Str(<<"D">>)}
      [] k = "due_date" -> {Str(D_iso), Str(D_short), Str(D_month13), Null}
      [] k = "status" -> {Str(S_Completed), Str(S_Done), Null}

AllVals == UNION {FieldVals(k) : k \in FieldNames}

Payloads ==
    UNION {{data \in [S -> AllVals] : \A k \in S : data[k] \in FieldVals(k)} :
           S \in SUBSET FieldNames}

EmptyDict == <<>>

\* data.get(key): None when the key is absent
Get(data, key) == IF key \in DOMAIN data THEN data[key] ELSE Null

\* data.get(key, default)
GetOr(data, key, default) == IF key \in DOMAIN data THEN data[key] ELSE default

(***************************************************************************)
(* routes/task_routes.py.  The frame of a thread holds the handler it is   *)
(* in (op, the id of the path, the decoded body), the line it is to run    *)
(* next (pc), its local references to Task objects (task, refs), the       *)
(* dicts it has serialised so far (body) and, once the handler has         *)
(* returned, its response.  Respond delivers the response and frees the    *)
(* thread for the next request.                                            *)
(***************************************************************************)
Response(code, message, fields, body) ==
    [code |-> code, message |-> message, fields |-> fields, body |-> body]

NoResponse == Response(0, "", <<>>, <<>>)

Frame(pc, op, id, data, task, refs, body, resp) ==
    [pc |-> pc, op |-> op, id |-> id, data |-> data, task |-> task,
     refs |-> refs, body |-> body, resp |-> resp]

\* a thread that is in no handler
NoFrame == Frame("idle", "none", 0, EmptyDict, None, <<>>, <<>>, NoResponse)

\* a thread whose handler has returned resp
Returns(op, id, data, resp) == Frame("done", op, id, data, None, <<>>, <<>>, resp)

\* a thread inside a handler, holding one Task
Holds(pc, op, id, data, task) == Frame(pc, op, id, data, task, <<>>, <<>>, NoResponse)

\* the objects a dict or a frame refers to
Referenced(ts, th) ==
    {ts[i].ref : i \in DOMAIN ts}
    \cup {th[t].task : t \in DOMAIN th}
    \cup UNION {{th[t].refs[i] : i \in DOMAIN th[t].refs} : t \in DOMAIN th}

\* reference counting: an object nothing refers to is freed
Collect(h, ts, th) ==
    [o \in DOMAIN h |-> IF o \in Referenced(ts, th) THEN h[o] ELSE NoTask]

Init ==
    /\ tasks = <<>>
    /\ heap = [o \in Refs |-> NoTask]
    /\ next_id = 1
    /\ threads = [t \in Threads |-> NoFrame]
    /\ assigned = <<>>
    /\ deleted = {}

\* mutant of the POST handler: the id is taken before the body is validated
create_task_id_first(t, data) ==
    /\ threads[t].pc = "idle"
    /\ next_id + Cardinality({u \in Threads : threads[u].pc = "l88"}) <= MaxCreates
    /\ UNCHANGED <<tasks, assigned, deleted>>
    /\ next_id' = next_id + 1
    /\ IF DOMAIN data = {}
       THEN /\ threads' = [threads EXCEPT ![t] = Returns("create", 0, data,
                               Response(400, "No data provided", <<>>, <<>>))]
            /\ UNCHANGED heap
       ELSE LET v == validate_create_task(data)
            IN  IF Raised(v)
                THEN /\ threads' = [threads EXCEPT ![t] = Returns("create", 0, data,
                                        Response(500, v.error, <<>>, <<>>))]
                     /\ UNCHANGED heap
                ELSE IF ~v.is_valid
                THEN /\ threads' = [threads EXCEPT ![t] = Returns("create", 0, data,
                                        Response(400, v.error, v.fields, <<>>))]
                     /\ UNCHANGED heap
                ELSE /\ heap' = [heap EXCEPT ![New(heap, next_id)] =
                                     Task(next_id, data["title"], data["description"],
                                          data["due_date"],
                                          GetOr(data, "status", Str(S_Pending)))]
                     /\ threads' = [threads EXCEPT ![t] =
                                        Holds("l88", "create", 0, data, New(heap, next_id))]

\* POST /tasks, to the call of Task in TaskStorage.create_task (line 87): the
\* body is checked, self.next_id is read and the Task is constructed
create_task(t, data) ==
    /\ threads[t].pc = "idle"
    /\ next_id + Cardinality({u \in Threads : threads[u].pc = "l88"}) <= MaxCreates
    /\ UNCHANGED <<tasks, next_id, assigned, deleted>>
    /\ IF DOMAIN data = {}
       THEN /\ threads' = [threads EXCEPT ![t] = Returns("create", 0, data,
                               Response(400, "No data provided", <<>>, <<>>))]
            /\ UNCHANGED heap
       ELSE LET v == validate_create_task(data)
            IN  IF Raised(v)
                THEN /\ threads' = [threads EXCEPT ![t] = Returns("create", 0, data,
                                        Response(500, v.error, <<>>, <<>>))]
                     /\ UNCHANGED heap
                ELSE IF ~v.is_valid
                THEN /\ threads' = [threads EXCEPT ![t] = Returns("create", 0, data,
                                        Response(400, v.error, v.fields, <<>>))]
                     /\ UNCHANGED heap
                ELSE /\ heap' = [heap EXCEPT ![New(heap, next_id)] =
                                     Task(next_id, data["title"], data["description"],
                                          data["due_date"],
                                          GetOr(data, "status", Str(S_Pending)))]
                     /\ threads' = [threads EXCEPT ![t] =
                                        Holds("l88", "create", 0, data, New(heap, next_id))]

\* TaskStorage.create_task, lines 88 to 90: the Task is stored under the value
\* self.next_id has now, and the counter is incremented
create_task_l88(t) ==
    /\ threads[t].pc = "l88"
    /\ LET c == TaskStorage_create_task(tasks, next_id, threads[t].task)
       IN  /\ tasks' = c.tasks
           /\ next_id' = c.next_id
    /\ threads' = [threads EXCEPT ![t].pc = "l49"]
    /\ heap' = Collect(heap, tasks', threads')
    /\ UNCHANGED <<assigned, deleted>>

\* POST /tasks, line 49: task.to_dict() is answered with 201
create_task_l49(t) ==
    /\ threads[t].pc = "l49"
    /\ LET f == threads[t]
           body == <<to_dict(heap[f.task])>>
       IN  /\ threads' = [threads EXCEPT ![t] = Returns("create", 0, f.data,
                              Response(201, "", <<>>, body))]
           /\ assigned' = Append(assigned, body[1].id)
    /\ heap' = Collect(heap, tasks, threads')
    /\ UNCHANGED <<tasks, next_id, deleted>>

\* GET /tasks, line 63: the list of the stored Task objects is taken
get_all_tasks_route(t) ==
    /\ threads[t].pc = "idle"
    /\ LET refs == get_all_tasks(tasks)
       IN  IF refs = <<>>
           THEN threads' = [threads EXCEPT ![t] = Returns("list", 0, EmptyDict,
                                Response(200, "", <<>>, <<>>))]
           ELSE threads' = [threads EXCEPT ![t] = Frame("l64", "list", 0, EmptyDict,
                                None, refs, <<>>, NoResponse)]
    /\ UNCHANGED <<tasks, heap, next_id, assigned, deleted>>

\* GET /tasks, line 64: to_dict() of the next Task of the list, which the local
\* tasks holds whole until the handler returns; after the last one the list of
\* dicts is answered with 200
get_all_tasks_l64(t) ==
    /\ threads[t].pc = "l64"
    /\ LET f == threads[t]
           body == Append(f.body, to_dict(heap[f.refs[Len(f.body) + 1]]))
       IN  IF Len(body) = Len(f.refs)
           THEN threads' = [threads EXCEPT ![t] = Returns("list", 0, EmptyDict,
                                Response(200, "", <<>>, body))]
           ELSE threads' = [threads EXCEPT ![t] = Frame("l64", "list", 0, EmptyDict,
                                None, f.refs, body, NoResponse)]
    /\ heap' = Collect(heap, tasks, threads')
    /\ UNCHANGED <<tasks, next_id, assigned, deleted>>

\* GET /tasks/<task_id>, lines 80 to 83: the Task is looked up
get_task_route(t, task_id) ==
    /\ threads[t].pc = "idle"
    /\ LET task == get_task(tasks, task_id)
       IN  IF task = None
           THEN threads' = [threads EXCEPT ![t] = Returns("get", task_id, EmptyDict,
                                Response(404, "Task not found", <<>>, <<>>))]
           ELSE threads' = [threads EXCEPT ![t] =
                                Holds("l85", "get", task_id, EmptyDict, task)]
    /\ UNCHANGED <<tasks, heap, next_id, assigned, deleted>>

\* GET /tasks/<task_id>, line 85: task.to_dict() is answered with 200
get_task_l85(t) ==
    /\ threads[t].pc = "l85"
    /\ LET f == threads[t]
       IN  threads' = [threads EXCEPT ![t] = Returns("get", f.id, EmptyDict,
                           Response(200, "", <<>>, <<to_dict(heap[f.task])>>))]
    /\ heap' = Collect(heap, tasks, threads')
    /\ UNCHANGED <<tasks, next_id, assigned, deleted>>

\* mutant of the PUT handler: the body is validated before the task is looked up
update_task_validate_first(t, task_id, data) ==
    /\ threads[t].pc = "idle"
    /\ UNCHANGED <<tasks, heap, next_id, assigned, deleted>>
    /\ IF DOMAIN data = {}
       THEN threads' = [threads EXCEPT ![t] = Returns("update", task_id, data,
                            Response(400, "No data provided", <<>>, <<>>))]
       ELSE LET v == validate_update_task(data)
            IN  IF Raised(v)
                THEN threads' = [threads EXCEPT ![t] = Returns("update", task_id, data,
                                     Response(500, v.error, <<>>, <<>>))]
                ELSE IF ~v.is_valid
                THEN threads' = [threads EXCEPT ![t] = Returns("update", task_id, data,
                                     Response(400, v.error, v.fields, <<>>))]
                ELSE IF get_task(tasks, task_id) = None
                THEN threads' = [threads EXCEPT ![t] = Returns("update", task_id, data,
                                     Response(404, "Task not found", <<>>, <<>>))]
                ELSE threads' = [threads EXCEPT ![t] =
                                     Holds("l127", "update", task_id, data,
                                           get_task(tasks, task_id))]

\* PUT /tasks/<task_id>, lines 110 to 126: the body is checked for emptiness,
\* the task is looked up and kept in the local task, the body is validated
update_task(t, task_id, data) ==
    /\ threads[t].pc = "idle"
    /\ UNCHANGED <<tasks, heap, next_id, assigned, deleted>>
    /\ IF DOMAIN data = {}
       THEN threads' = [threads EXCEPT ![t] = Returns("update", task_id, data,
                            Response(400, "No data provided", <<>>, <<>>))]
       ELSE IF get_task(tasks, task_id) = None
       THEN threads' = [threads EXCEPT ![t] = Returns("update", task_id, data,
                            Response(404, "Task not found", <<>>, <<>>))]
       ELSE LET v == validate_update_task(data)
            IN  IF Raised(v)
                THEN threads' = [threads EXCEPT ![t] = Returns("update", task_id, data,
                                     Response(500, v.error, <<>>, <<>>))]
                ELSE IF ~v.is_valid
                THEN threads' = [threads EXCEPT ![t] = Returns("update", task_id, data,
                                     Response(400, v.error, v.fields, <<>>))]
                ELSE threads' = [threads EXCEPT ![t] =
                                     Holds("l127", "update", task_id, data,
                                           get_task(tasks, task_id))]

\* TaskStorage.update_task, line 127: the task is looked up again, into the
\* local task of TaskStorage.update_task (refs), later updated_task of the
\* handler.  When it is gone None is returned, and line 134 of the handler
\* raises AttributeError on None.to_dict(), which the handler answers with 500
update_task_l127(t) ==
    /\ threads[t].pc = "l127"
    /\ LET f == threads[t]
           task == get_task(tasks, f.id)
       IN  IF task = None
           THEN threads' = [threads EXCEPT ![t] = Returns("update", f.id, f.data,
                                Response(500, "AttributeError", <<>>, <<>>))]
           ELSE threads' = [threads EXCEPT ![t] = Frame("l129", "update", f.id, f.data,
                                f.task, <<task>>, <<>>, NoResponse)]
    /\ heap' = Collect(heap, tasks, threads')
    /\ UNCHANGED <<tasks, next_id, assigned, deleted>>

\* TaskStorage.update_task, line 129: task.update(...) with the data.get values
update_task_l129(t) ==
    /\ threads[t].pc = "l129"
    /\ LET f == threads[t]
       IN  heap' = [heap EXCEPT ![f.refs[1]] =
                        Task_update(@, Get(f.data, "title"), Get(f.data, "description"),
                                    Get(f.data, "due_date"), Get(f.data, "status"))]
    /\ threads' = [threads EXCEPT ![t].pc = "l134"]
    /\ UNCHANGED <<tasks, next_id, assigned, deleted>>

\* PUT /tasks/<task_id>, line 134: updated_task.to_dict() is answered with 200
update_task_l134(t) ==
    /\ threads[t].pc = "l134"
    /\ LET f == threads[t]
       IN  threads' = [threads EXCEPT ![t] = Returns("update", f.id, f.data,
                           Response(200, "", <<>>, <<to_dict(heap[f.refs[1]])>>))]
    /\ heap' = Collect(heap, tasks, threads')
    /\ UNCHANGED <<tasks, next_id, assigned, deleted>>

\* DELETE /tasks/<task_id>: TaskStorage.delete_task makes no call between its
\* test and its del
delete_task(t, task_id) ==
    /\ threads[t].pc = "idle"
    /\ LET d == TaskStorage_delete_task(tasks, task_id)
       IN  IF ~d.result
           THEN /\ threads' = [threads EXCEPT ![t] = Returns("delete", task_id, EmptyDict,
                                   Response(404, "Task not found", <<>>, <<>>))]
                /\ UNCHANGED <<tasks, deleted>>
           ELSE /\ threads' = [threads EXCEPT ![t] = Returns("delete", task_id, EmptyDict,
                                   Response(200, "Task deleted successfully", <<>>, <<>>))]
                /\ tasks' = d.tasks
                /\ deleted' = deleted \cup {task_id}
    /\ heap' = Collect(heap, tasks', threads')
    /\ UNCHANGED <<next_id, assigned>>

\* the response is delivered; the thread can take the next request
Respond(t) ==
    /\ threads[t].pc = "done"
    /\ threads' = [threads EXCEPT ![t] = NoFrame]
    /\ UNCHANGED <<tasks, heap, next_id, assigned, deleted>>

(***************************************************************************)
(* Requests served one at a time, as the test client sends them: one       *)
(* thread runs every handler from its first line to its response.          *)
(***************************************************************************)
Next ==
    \/ \E data \in Payloads : create_task(Worker, data)
    \/ create_task_l88(Worker)
    \/ create_task_l49(Worker)
    \/ get_all_tasks_route(Worker)
    \/ get_all_tasks_l64(Worker)
    \/ \E task_id \in Ids : get_task_route(Worker, task_id)
    \/ get_task_l85(Worker)
    \/ \E task_id \in Ids, data \in Payloads : update_task(Worker, task_id, data)
    \/ update_task_l127(Worker)
    \/ update_task_l129(Worker)
    \/ update_task_l134(Worker)
    \/ \E task_id \in Ids : delete_task(Worker, task_id)
    \/ Respond(Worker)

Spec == Init /\ [][Next]_vars

(***************************************************************************)
(* The validators called on their own, as the handlers call them, on       *)
(* decoded bodies with values of several JSON types and with a key the     *)
(* handlers do not read.  The result is kept in the frame's response:      *)
(* message is the error returned ("None" on success) or the exception      *)
(* raised, fields the names of a MissingFields error.                      *)
(***************************************************************************)
VFieldNames == FieldNames \cup {"priority"}

VFieldVals(k) ==
    CASE k = "title" -> {Str(<<"A">>), Str(<<>>), Null, Num(<<"5">>)}
      [] k = "description" -> {Str(<<"D">>), Null}
      [] k = "due_date" -> {Str(D_iso), Str(D_short), Str(D_blankday), Str(D_month13),
                            Str(D_dmy), Str(D_feb30), Str(D_arabic), Str(D_fullwidth),
                            Str(D_arabic_month), Null, Num(<<"5">>), List(<<>>)}
      [] k = "status" -> {Str(S_Pending), Str(S_InProgress), Str(S_Completed),
                          Str(S_Done), Str(S_pending), Null, List(<<>>)}
      [] k = "priority" -> {Num(<<"5">>)}

VAllVals == UNION {VFieldVals(k) : k \in VFieldNames}

VPayloads ==
    UNION {{data \in [S -> VAllVals] : \A k \in S : data[k] \in VFieldVals(k)} :
           S \in SUBSET VFieldNames}

Returned(v) == Response(0, v.error, v.fields, <<>>)

call_validate_create_task(t, data) ==
    /\ threads[t].pc = "idle"
    /\ threads' = [threads EXCEPT ![t] = Returns("validate_create_task", 0, data,
                       Returned(validate_create_task(data)))]
    /\ UNCHANGED <<tasks, heap, next_id, assigned, deleted>>

call_validate_update_task(t, data) ==
    /\ threads[t].pc = "idle"
    /\ threads' = [threads EXCEPT ![t] = Returns("validate_update_task", 0, data,
                       Returned(validate_update_task(data)))]
    /\ UNCHANGED <<tasks, heap, next_id, assigned, deleted>>

NextV ==
    \/ \E data \in VPayloads : call_validate_create_task(Worker, data)
    \/ \E data \in VPayloads : call_validate_update_task(Worker, data)
    \/ Respond(Worker)

SpecV == Init /\ [][NextV]_vars

(***************************************************************************)
(* Concurrent requests.  app.run serves each request on a thread of its    *)
(* own, all on the one module-level task_storage, and neither the handlers *)
(* nor TaskStorage take a lock: between two steps of one handler the other *)
(* threads can run any of theirs.                                          *)
(***************************************************************************)
ThreadCreates ==
    {data \in Payloads : /\ DOMAIN data = {"title", "description", "due_date"}
                         /\ data["title"] = Str(<<"A">>)
                         /\ data["due_date"] = Str(D_iso)}

ThreadUpdates ==
    {data \in Payloads : \/ DOMAIN data = {"title"} /\ data["title"] = Str(<<>>)
                         \/ DOMAIN data = {"status"} /\ data["status"] = Str(S_Completed)}

ThreadIds == 1..MaxCreates

NextThreads ==
    \/ \E t \in Threads, data \in ThreadCreates : create_task(t, data)
    \/ \E t \in Threads : create_task_l88(t)
    \/ \E t \in Threads : create_task_l49(t)
    \/ \E t \in Threads : get_all_tasks_route(t)
    \/ \E t \in Threads : get_all_tasks_l64(t)
    \/ \E t \in Threads, task_id \in ThreadIds : get_task_route(t, task_id)
    \/ \E t \in Threads : get_task_l85(t)
    \/ \E t \in Threads, task_id \in ThreadIds, data \in ThreadUpdates :
           update_task(t, task_id, data)
    \/ \E t \in Threads : update_task_l127(t)
    \/ \E t \in Threads : update_task_l129(t)
    \/ \E t \in Threads : update_task_l134(t)
    \/ \E t \in Threads, task_id \in ThreadIds : delete_task(t, task_id)
    \/ \E t \in Threads : Respond(t)

SpecThreads == Init /\ [][NextThreads]_vars

(***************************************************************************)
(* Properties.  Those of the requests served one at a time are read off    *)
(* the frame of the serving thread.                                        *)
(***************************************************************************)
\* the frame of the thread that serves the requests sent one at a time
fr == threads[Worker]

\* the state in which the handler `op` has returned its response
Answered(op) == fr.pc = "done" /\ fr.op = op

\* the step in which a request to the handler `op` is taken
Begins(op) == fr.pc = "idle" /\ fr'.op = op

\* the stored Tasks, in the order of the dict
StoredTasks == [i \in DOMAIN tasks |-> heap[tasks[i].ref]]

\* the Task stored under a key that is present
Stored(task_id) == heap[get_task(tasks, task_id)]

StrictlyIncreasing(s) == \A i, j \in DOMAIN s : i < j => s[i] < s[j]

\* C1: the ids returned by successful creates are strictly increasing, so the
\* stored tasks have distinct ids, each stored id was handed out exactly once
\* (or is about to be, by the create that has stored it and not yet answered),
\* and no create returns an id that a delete has freed.
C1_IdsStrictlyIncreasing ==
    /\ StrictlyIncreasing(assigned)
    /\ \A i, j \in DOMAIN tasks : i # j => StoredTasks[i].id # StoredTasks[j].id
    /\ \A i \in DOMAIN tasks :
           LET n == Cardinality({j \in DOMAIN assigned : assigned[j] = StoredTasks[i].id})
           IN  IF fr.pc = "l49" /\ tasks[i].ref = fr.task
               THEN n = 0 /\ \A j \in DOMAIN assigned : assigned[j] < StoredTasks[i].id
               ELSE n = 1
    /\ (fr.pc \in {"l88", "l49"}) => heap[fr.task].id \notin deleted
    /\ (Answered("create") /\ fr.resp.code = 201) =>
           /\ fr.resp.body[1].id = assigned[Len(assigned)]
           /\ fr.resp.body[1].id \notin deleted

\* C1 witness: a create succeeded after an earlier create and a delete
C1_Witness ==
    /\ Answered("create")
    /\ fr.resp.code = 201
    /\ Len(assigned) >= 2
    /\ deleted # {}

\* C2 as claimed: an update of an id that is not stored is answered 404 for
\* every payload, the empty one included, and the store is unchanged.
C2_Original ==
    [][(Begins("update") /\ fr'.id \notin Keys(tasks)) =>
           /\ fr'.pc = "done"
           /\ fr'.resp.code = 404
           /\ tasks' = tasks /\ heap' = heap /\ next_id' = next_id]_vars

\* C2 amended: an update of an id that is not stored is answered 404 for every
\* non-empty payload, valid or invalid, and 400 for the empty payload; the
\* store is unchanged either way.
C2_NotFoundUnlessEmptyBody ==
    [][(Begins("update") /\ fr'.id \notin Keys(tasks)) =>
           /\ fr'.pc = "done"
           /\ fr'.resp.code = (IF DOMAIN fr'.data = {} THEN 400 ELSE 404)
           /\ tasks' = tasks /\ heap' = heap /\ next_id' = next_id]_vars

\* C2 witness: a payload with an invalid status, sent to an id that is not
\* stored, was answered 404
C2_Witness ==
    /\ Answered("update")
    /\ fr.id \notin Keys(tasks)
    /\ "status" \in DOMAIN fr.data
    /\ fr.data["status"] = Str(S_Done)
    /\ fr.resp.code = 404

\* C3: no step of an update changes the dict or the counter, the id of the
\* task addressed, a field of it whose key is absent from the payload, or any
\* other task.
C3_UpdateFrame ==
    [][(fr'.op = "update") =>
           /\ tasks' = tasks
           /\ next_id' = next_id
           /\ \A o \in Refs :
                  IF o = get_task(tasks, fr'.id)
                  THEN /\ heap'[o].id = heap[o].id
                       /\ \A k \in FieldNames \ DOMAIN fr'.data : heap'[o][k] = heap[o][k]
                  ELSE heap'[o] = heap[o]]_vars

\* C3 witness: an update carrying only status succeeded while two tasks are stored
C3_Witness ==
    /\ Answered("update")
    /\ fr.resp.code = 200
    /\ DOMAIN fr.data = {"status"}
    /\ Len(tasks) >= 2
    /\ Stored(fr.id).status = fr.data["status"]

\* C4 as claimed: after a successful update every key present in the payload
\* holds the supplied value, null and the empty string included.
C4_Original ==
    (Answered("update") /\ fr.resp.code = 200) =>
        \A k \in DOMAIN fr.data \cap FieldNames : Stored(fr.id)[k] = fr.data[k]

\* C4 amended: an update that passes the handler's checks is applied to the
\* stored task: every key present in the payload with a value other than null
\* takes the supplied value, the empty string included; a key supplied as null
\* is treated like an absent key and keeps its value; the answer is 200 with
\* the task as it is then stored.
C4_PresentNonNullStored ==
    [][/\ (fr.pc = "l127") =>
              /\ fr'.pc = "l129"
              /\ fr'.refs = <<get_task(tasks, fr.id)>>
       /\ (fr.pc = "l129") =>
              /\ fr'.pc = "l134"
              /\ \A k \in DOMAIN fr.data \cap FieldNames :
                     heap'[fr.refs[1]][k] =
                         IF IsNone(fr.data[k]) THEN heap[fr.refs[1]][k] ELSE fr.data[k]
       /\ (fr.pc = "l134") =>
              /\ fr'.resp.code = 200
              /\ fr'.resp.body = <<Stored(fr.id)>>
              /\ \A k \in DOMAIN fr.data \cap FieldNames :
                     IsNone(fr.data[k]) \/ Stored(fr.id)[k] = fr.data[k]]_vars

\* C4 witness: an update supplying the empty string as title succeeded and the
\* stored title is the empty string
C4_Witness ==
    /\ Answered("update")
    /\ fr.resp.code = 200
    /\ "title" \in DOMAIN fr.data
    /\ fr.data["title"] = Str(<<>>)
    /\ Stored(fr.id).title = Str(<<>>)

\* C5: the status of every stored task is one of Pending, In Progress, Completed.
C5_StatusEnumerated ==
    \A i \in DOMAIN tasks :
        StoredTasks[i].status \in {Str(S_Pending), Str(S_InProgress), Str(S_Completed)}

\* C5 witness: an update with an invalid status was rejected while a task whose
\* status an earlier request set to Completed is stored
C5_Witness ==
    /\ Answered("update")
    /\ fr.id \in Keys(tasks)
    /\ "status" \in DOMAIN fr.data
    /\ fr.data["status"] = Str(S_Done)
    /\ fr.resp.code = 400
    /\ fr.resp.message = E_Status
    /\ Stored(fr.id).status = Str(S_Completed)

\* a str of exactly the form YYYY-MM-DD that names a real calendar date
IsIsoDate(x) ==
    /\ IsStr(x)
    /\ Len(x.v) = 10
    /\ \A i \in {1, 2, 3, 4, 6, 7, 9, 10} : x.v[i] \in AsciiDigit
    /\ x.v[5] = "-"
    /\ x.v[8] = "-"
    /\ IntOf(x.v, 1, 4) >= 1
    /\ IntOf(x.v, 6, 2) \in 1..12
    /\ IntOf(x.v, 9, 2) \in 1..DaysInMonth(IntOf(x.v, 1, 4), IntOf(x.v, 6, 2))

\* C6 as claimed: the due_date of every stored task is a string of exactly the
\* form YYYY-MM-DD naming a real calendar date.
C6_Original ==
    \A i \in DOMAIN tasks : IsIsoDate(StoredTasks[i].due_date)

\* C7: delete answers 200 exactly when the id is stored; it removes that task
\* and leaves the others as they were; an id once deleted is never stored
\* again, and a get of it is answered 404, whatever requests follow.
C7_DeleteIsFinal ==
    [][/\ Begins("delete") =>
              /\ fr'.pc = "done"
              /\ (fr'.resp.code = 200) <=> (fr'.id \in Keys(tasks))
              /\ (fr'.resp.code = 404) <=> (fr'.id \notin Keys(tasks))
              /\ tasks' = SelectSeq(tasks, LAMBDA e : e.key # fr'.id)
              /\ \A i \in DOMAIN tasks' : heap'[tasks'[i].ref] = heap[tasks'[i].ref]
              /\ next_id' = next_id
       /\ \A d \in deleted' : d \notin Keys(tasks')
       /\ (Begins("get") /\ fr'.id \in deleted) =>
              /\ fr'.pc = "done"
              /\ fr'.resp.code = 404]_vars

\* C7 witness: a get of a deleted id is answered 404 after a later create
C7_Witness ==
    /\ Answered("get")
    /\ fr.id \in deleted
    /\ fr.resp.code = 404
    /\ \E j \in DOMAIN assigned : assigned[j] > fr.id
    /\ tasks # <<>>

\* C8: the dict, the stored tasks and the counter change only in the storing
\* step of a create, which is then answered 201, in the applying step of an
\* update, which is then answered 200, and in a delete answered 200; a request
\* answered otherwise has taken no such step, and a get or a list takes none.
C8_OnlySuccessMutates ==
    [][/\ (tasks' # tasks \/ StoredTasks' # StoredTasks \/ next_id' # next_id) =>
              \/ fr.pc = "l88" /\ fr.op = "create"
              \/ fr.pc = "l129" /\ fr.op = "update"
              \/ Begins("delete") /\ fr'.resp.code = 200
       /\ (fr.pc = "l88") => fr'.pc = "l49"
       /\ (fr.pc = "l49") => fr'.pc = "done" /\ fr'.resp.code = 201
       /\ (fr.pc = "l129") => fr'.pc = "l134"
       /\ (fr.pc = "l134") => fr'.pc = "done" /\ fr'.resp.code = 200
       /\ (fr'.pc = "done" /\ fr'.resp.code \notin {200, 201}) => fr.pc = "idle"]_vars

\* C8 witness: a create was rejected for a missing field while a task is stored
C8_Witness ==
    /\ Answered("create")
    /\ fr.resp.code = 400
    /\ fr.resp.fields # <<>>
    /\ tasks # <<>>
    /\ next_id = Len(assigned) + 1

\* C9: a successful create stores the payload's title, description and due_date
\* and the payload's status, or Pending when the key is absent, and answers
\* with the task stored; the task stays as stored until an update is applied
\* to that id or a delete of it succeeds, and a get of the id is answered with
\* the task as stored.
C9_CreateStoresPayload ==
    [][/\ (fr.pc = "l49") =>
              LET task == fr'.resp.body[1]
              IN  /\ fr'.resp.code = 201
                  /\ task.id \in Keys(tasks')
                  /\ heap'[get_task(tasks', task.id)] = task
                  /\ task.title = fr.data["title"]
                  /\ task.description = fr.data["description"]
                  /\ task.due_date = fr.data["due_date"]
                  /\ task.status = IF "status" \in DOMAIN fr.data
                                   THEN fr.data["status"] ELSE Str(S_Pending)
       /\ \A task_id \in Keys(tasks) :
              \/ /\ task_id \in Keys(tasks')
                 /\ heap'[get_task(tasks', task_id)] = Stored(task_id)
              \/ fr.pc = "l129" /\ fr.id = task_id
              \/ Begins("delete") /\ fr'.id = task_id /\ fr'.resp.code = 200
       /\ (Begins("get") /\ fr'.id \in Keys(tasks)) =>
              /\ fr'.pc = "l85"
              /\ fr'.task = get_task(tasks, fr'.id)
       /\ (fr.pc = "l85") =>
              /\ fr'.resp.code = 200
              /\ fr'.resp.body = <<Stored(fr.id)>>]_vars

\* C9 witness: a create without a status key stored a task with status Pending
\* next to a task created with status Completed
C9_Witness ==
    /\ Answered("create")
    /\ fr.resp.code = 201
    /\ "status" \notin DOMAIN fr.data
    /\ Stored(fr.resp.body[1].id).status = Str(S_Pending)
    /\ \E i \in DOMAIN tasks : StoredTasks[i].status = Str(S_Completed)

\* C10 as claimed, read off the POST handler's answer to a non-empty body:
\* MissingFields naming the absent required fields in order, whatever the
\* values of the present ones; else InvalidDateFormat if due_date is not a date
\* (the date check taken as generously as strptime takes it, so that only the
\* order and the outcomes of the checks are at stake); else InvalidStatus if the
\* status key is present and not one of the three; else success.
C10_Original ==
    (Answered("create") /\ DOMAIN fr.data # {}) =>
        LET absent == SelectSeq(<<"title", "description", "due_date">>,
                                LAMBDA k : k \notin DOMAIN fr.data)
        IN  IF absent # <<>>
            THEN fr.resp.code = 400 /\ fr.resp.message = "Missing required fields"
                 /\ fr.resp.fields = absent
            ELSE IF ~(IsStr(fr.data["due_date"]) /\ strptime(fr.data["due_date"].v))
            THEN fr.resp.code = 400 /\ fr.resp.message = E_Date
            ELSE IF /\ "status" \in DOMAIN fr.data
                    /\ fr.data["status"] \notin
                           {Str(S_Pending), Str(S_InProgress), Str(S_Completed)}
            THEN fr.resp.code = 400 /\ fr.resp.message = E_Status
            ELSE fr.resp.code = 201

\* C11 as claimed: validate_update_task fails with EmptyUpdate exactly on the
\* empty mapping; on a non-empty one it returns InvalidDateFormat if due_date
\* is present and is not a date strptime takes, else InvalidStatus if status is
\* present and not one of the three, else success, a mapping with neither key
\* (only title, description or an unrecognised key) being valid.
C11_Original ==
    Answered("validate_update_task") =>
        IF DOMAIN fr.data = {}
        THEN fr.resp.message = E_Empty
        ELSE IF /\ "due_date" \in DOMAIN fr.data
                /\ ~(IsStr(fr.data["due_date"]) /\ strptime(fr.data["due_date"].v))
        THEN fr.resp.message = E_Date
        ELSE IF /\ "status" \in DOMAIN fr.data
                /\ fr.data["status"] \notin
                       {Str(S_Pending), Str(S_InProgress), Str(S_Completed)}
        THEN fr.resp.message = E_Status
        ELSE fr.resp.message = "None"

\* C12 as claimed: validate_create_task and validate_update_task return a
\* (success flag, message) result for every mapping, whatever the JSON types of
\* its values; neither ever raises.
C12_Original ==
    (Answered("validate_create_task") \/ Answered("validate_update_task")) =>
        fr.resp.message \in {"None", "Missing required fields", E_Date, E_Status, E_Empty}

\* C13 as claimed: the title of every stored task is non-empty text.
C13_Original ==
    \A i \in DOMAIN tasks : IsStr(StoredTasks[i].title) /\ StoredTasks[i].title.v # <<>>

\* the ids of a sequence of tasks, in order
IdsOf(ts) == [i \in DOMAIN ts |-> ts[i].id]

\* C14: list is answered 200 with the tasks created and not since deleted, each
\* once, in the order of their creation, which is ascending id order, each as
\* it is now stored; with nothing stored the answer is the empty sequence.
C14_ListInCreationOrder ==
    Answered("list") =>
        /\ fr.resp.code = 200
        /\ IdsOf(fr.resp.body) = SelectSeq(assigned, LAMBDA a : a \notin deleted)
        /\ StrictlyIncreasing(IdsOf(fr.resp.body))
        /\ \A i \in DOMAIN fr.resp.body :
               /\ fr.resp.body[i].id \in Keys(tasks)
               /\ Stored(fr.resp.body[i].id) = fr.resp.body[i]

\* C14 witness: two stored tasks are listed in the order of their creation
C14_Witness ==
    /\ Answered("list")
    /\ fr.resp.code = 200
    /\ IdsOf(fr.resp.body) = <<1, 2>>
    /\ fr.resp.body[1].status = Str(S_Completed)
    /\ fr.resp.body[2].status = Str(S_Pending)

\* C15 as claimed: with requests served on several threads, no two creates
\* read the same next_id: no two Tasks have the same id, no two creates return
\* the same id, and every stored Task is in the dict under its own id.
C15_Original ==
    /\ \A i, j \in DOMAIN assigned : i # j => assigned[i] # assigned[j]
    /\ \A o, p \in Refs : (o # p /\ heap[o] # NoTask) => heap[o].id # heap[p].id
    /\ \A i \in DOMAIN tasks : tasks[i].key = heap[tasks[i].ref].id

====
